---- MODULE Spec2Model ----
(***************************************************************************)
(* A model of the project board of src/basics/src/app.ts: the observable   *)
(* project store (State, ProjectState), the field validator (validate),    *)
(* and the UI components bound to the store (ProjectInput, ProjectList,    *)
(* ProjectItem).                                                           *)
(*                                                                         *)
(* Objects are modelled with their identity: a Project is a cell of heap   *)
(* and is named by its index (its reference); an array is a record of a    *)
(* reference and its items, the items being Project references.  Strings   *)
(* that the code trims, measures or parses are sequences of characters.    *)
(***************************************************************************)
EXTENDS Integers, Sequences, FiniteSets, TLC

VARIABLES
  heap,              \* the Project objects, by reference
  projects,          \* ProjectState.projects: the references it holds
  listeners,         \* State.listeners
  assignedProjects,  \* ProjectList.assignedProjects of each list container
  rendered,          \* the items in each list container's list element
  calls,             \* the listener calls the last operation made
  notified,          \* how often the last operation ran updateListeners
  stored,            \* the store as updateListeners found it
  moves,             \* the moveProject calls the last operation made
  thrown,            \* whether the last operation ended by an exception
  invoked,           \* per listener, the calls made of it since addListener
  due,               \* per listener, the mutations since its addListener
  lastOp,            \* the last operation and its arguments
  titleEl,           \* ProjectInput.titleEl.value
  descInputEl,       \* ProjectInput.descInputEl.value
  peopleEl,          \* ProjectInput.peopleEl.value
  alerted,           \* whether the last operation called alert
  dataTransfer,      \* the DataTransfer of the drag in progress
  droppable,         \* whether each list element has the class droppable
  vobj,              \* the object handed to validate
  vresult,           \* what validate returned for it, once it has
  instance,          \* ProjectState.instance, 0 while it is undefined
  constructed,       \* how many ProjectState objects have been constructed
  handles            \* what the calls of getInstance returned, in order

storeVars ==
  <<heap, projects, assignedProjects, rendered, calls, notified, stored,
    moves, thrown>>

formVars == <<titleEl, descInputEl, peopleEl, alerted>>

dragVars == <<dataTransfer, droppable>>

validateVars == <<vobj, vresult>>

instanceVars == <<instance, constructed, handles>>

countVars == <<invoked, due>>

vars ==
  <<storeVars, listeners, lastOp, formVars, dragVars, validateVars,
    instanceVars, countVars>>

-----------------------------------------------------------------------------
(* Bounds *)

MaxProjects == 2

MaxListeners == 2

MaxHandles == 2

NumRandom == 2

-----------------------------------------------------------------------------
(* Project Type *)

ProjectStatus == {"Active", "Finished"}

Project(id, title, description, people, status) ==
  [id |-> id, title |-> title, description |-> description,
   people |-> people, status |-> status]

ListTypes == {"active", "finished"}

\* The category a list container stands for.
ListStatus(projectType) ==
  IF projectType = "active" THEN "Active" ELSE "Finished"

-----------------------------------------------------------------------------
(* Arrays *)

\* The reference of the store's own array, this.projects; it is assigned
\* once, in the field initializer.
ProjectsRef == 0

ArrayOf(ref, items) == [ref |-> ref, items |-> items]

\* Array.prototype.slice(): a new array object with the same items.
SliceAlias(arr, fresh) == arr

Slice(arr, fresh) == ArrayOf(fresh, arr.items)

RECURSIVE SelectRefs(_, _, _)
\* Array.prototype.filter over Project references, keeping order.
SelectRefs(items, h, status) ==
  IF items = <<>> THEN <<>>
  ELSE LET rest == SelectRefs(Tail(items), h, status)
       IN  IF h[Head(items)].status = status
           THEN <<Head(items)>> \o rest
           ELSE rest

-----------------------------------------------------------------------------
(* Listeners *)

\* The callbacks handed to addListener are the closures of the two list
\* containers ("active", "finished") and, for a caller of the store, a
\* callback that only observes ("count"), one that empties the array it is
\* given ("clear": items.length = 0), one that writes to a record it
\* reaches through that array ("retitle": items[0].title = "x") and one
\* that fails ("throw": it throws).
Callbacks == {"count", "clear"}

AnyCallbacks == Callbacks \cup {"retitle", "throw"}

\* The state an operation of the store works on.
StoreNow ==
  [heap |-> heap, projects |-> projects,
   assignedProjects |-> assignedProjects, rendered |-> rendered,
   calls |-> <<>>, notified |-> 0,
   stored |-> [heap |-> <<>>, projects |-> <<>>], moves |-> <<>>,
   thrown |-> FALSE]

\* A write of new items into the array object ref: it reaches the store's
\* array only if ref is the store's array.
ArrayWrite(st, ref, items) ==
  IF ref = ProjectsRef THEN [st EXCEPT !.projects = items] ELSE st

renderProjectsKeepsItems(listItems, assigned) == listItems \o assigned

\* ProjectList.renderProjects on a list element holding listItems: the
\* element is emptied (innerHTML = "") and one item is created, at the end
\* of the list, for each assigned project in order.
renderProjects(listItems, assigned) ==
  LET emptied == SubSeq(listItems, 1, 0)
  IN  emptied \o assigned

\* The listener a list container registers in ProjectList.configure.
ListListener(st, projectType, arg) ==
  LET relevantProjects == SelectRefs(arg.items, st.heap, ListStatus(projectType))
  IN  [st EXCEPT !.assignedProjects[projectType] = relevantProjects,
                 !.rendered[projectType] =
                    renderProjects(st.rendered[projectType], relevantProjects)]

\* One call listener(arg) of the i-th registered listener.
CallListener(st, i, arg) ==
  LET kind == listeners[i]
      logged == [st EXCEPT !.calls = Append(@,
                   [listener |-> i, ref |-> arg.ref, items |-> arg.items,
                    seen |-> [k \in 1..Len(arg.items) |-> st.heap[arg.items[k]]]])]
  IN  CASE kind \in ListTypes -> ListListener(logged, kind, arg)
        [] kind = "count" -> logged
        [] kind = "clear" -> ArrayWrite(logged, arg.ref, <<>>)
        [] kind = "retitle" ->
             IF arg.items = <<>> THEN logged
             ELSE [logged EXCEPT !.heap[arg.items[1]].title = <<"x">>]
        [] kind = "throw" -> [logged EXCEPT !.thrown = TRUE]

RECURSIVE NotifyFromGuarded(_, _)
NotifyFromGuarded(st, i) ==
  IF i > Len(listeners) THEN st
  ELSE NotifyFromGuarded(
         CallListener(st, i,
           Slice(ArrayOf(ProjectsRef, st.projects), Len(st.calls) + 1)),
         i + 1)

RECURSIVE NotifyFrom(_, _)
\* The for loop of updateListeners from the i-th listener on; an exception
\* of a listener is not caught and ends the loop.
NotifyFrom(st, i) ==
  IF i > Len(listeners) \/ st.thrown THEN st
  ELSE NotifyFrom(
         CallListener(st, i,
           Slice(ArrayOf(ProjectsRef, st.projects), Len(st.calls) + 1)),
         i + 1)

\* ProjectState.updateListeners
updateListeners(st) ==
  NotifyFrom([st EXCEPT !.notified = @ + 1,
                        !.stored = [heap |-> st.heap, projects |-> st.projects]],
             1)

-----------------------------------------------------------------------------
(* State Mgmt *)

\* Math.random(): a number in [0, 1), here r tenths.
RandomNumbers == 0..(NumRandom - 1)

\* Number.prototype.toString of r tenths.
NumberToString(r) == IF r = 0 THEN "0" ELSE "0." \o ToString(r)

addProjectUnshift(st, title, desc, people, rnd) ==
  LET newProject == Project(NumberToString(rnd), title, desc, people, "Active")
      ref == Len(st.heap) + 1
  IN  updateListeners([st EXCEPT !.heap = Append(@, newProject),
                                 !.projects = <<ref>> \o @])

\* ProjectState.addProject
addProject(st, title, desc, people, rnd) ==
  LET newProject == Project(NumberToString(rnd), title, desc, people, "Active")
      ref == Len(st.heap) + 1
  IN  updateListeners([st EXCEPT !.heap = Append(@, newProject),
                                 !.projects = Append(@, ref)])

\* Array.prototype.find: the index of the first project with the id, or 0.
FindIndex(st, projectId) ==
  LET hits == {k \in 1..Len(st.projects) : st.heap[st.projects[k]].id = projectId}
  IN  IF hits = {} THEN 0
      ELSE CHOOSE k \in hits : \A j \in hits : k <= j

moveProjectReinserts(st, projectId, newStatus) ==
  LET k == FindIndex(st, projectId)
      called == [st EXCEPT !.moves = Append(@, [id |-> projectId,
                                                status |-> newStatus])]
      others == SelectSeq(st.projects, LAMBDA ref : ref # st.projects[k])
  IN  IF k # 0 /\ st.heap[st.projects[k]].status # newStatus
      THEN updateListeners(
             [called EXCEPT !.heap[st.projects[k]].status = newStatus,
                        !.projects = Append(others, st.projects[k])])
      ELSE called

moveProjectNeverNotifies(st, projectId, newStatus) ==
  LET k == FindIndex(st, projectId)
      called == [st EXCEPT !.moves = Append(@, [id |-> projectId,
                                                status |-> newStatus])]
  IN  IF k # 0 /\ st.heap[st.projects[k]].status # newStatus
      THEN [called EXCEPT !.heap[st.projects[k]].status = newStatus]
      ELSE called

moveProjectAlwaysNotifies(st, projectId, newStatus) ==
  LET k == FindIndex(st, projectId)
      called == [st EXCEPT !.moves = Append(@, [id |-> projectId,
                                                status |-> newStatus])]
  IN  IF k # 0 /\ st.heap[st.projects[k]].status # newStatus
      THEN updateListeners([called EXCEPT !.heap[st.projects[k]].status = newStatus])
      ELSE updateListeners(called)

\* ProjectState.moveProject
moveProject(st, projectId, newStatus) ==
  LET k == FindIndex(st, projectId)
      called == [st EXCEPT !.moves = Append(@, [id |-> projectId,
                                                status |-> newStatus])]
  IN  IF k # 0 /\ st.heap[st.projects[k]].status # newStatus
      THEN updateListeners([called EXCEPT !.heap[st.projects[k]].status = newStatus])
      ELSE called

-----------------------------------------------------------------------------
(* Validation *)

\* The characters String.prototype.trim removes, of those the model uses.
WhiteSpace == {" ", "\t"}

RECURSIVE TrimStart(_)
TrimStart(s) ==
  IF s # <<>> /\ Head(s) \in WhiteSpace THEN TrimStart(Tail(s)) ELSE s

RECURSIVE TrimEnd(_)
TrimEnd(s) ==
  IF s # <<>> /\ s[Len(s)] \in WhiteSpace
  THEN TrimEnd(SubSeq(s, 1, Len(s) - 1))
  ELSE s

\* String.prototype.trim
Trim(s) == TrimEnd(TrimStart(s))

\* The values of type string | number: a string is its characters, a
\* number is an integer or NaN.
StringValue(s) == [type |-> "string", text |-> s, nan |-> FALSE, n |-> 0]

NumberValue(n) == [type |-> "number", text |-> <<>>, nan |-> FALSE, n |-> n]

NaN == [type |-> "number", text |-> <<>>, nan |-> TRUE, n |-> 0]

DigitChars == <<"0", "1", "2", "3", "4", "5", "6", "7", "8", "9">>

RECURSIVE Digits(_)
\* The decimal digits of a natural number.
Digits(n) ==
  IF n < 10 THEN <<DigitChars[n + 1]>>
  ELSE Digits(n \div 10) \o <<DigitChars[(n % 10) + 1]>>

\* value.toString()
ValueToString(value) ==
  IF value.type = "string" THEN value.text
  ELSE IF value.nan THEN <<"N", "a", "N">>
  ELSE IF value.n < 0 THEN <<"-">> \o Digits(-value.n)
  ELSE Digits(value.n)

\* a > b on numbers: false when either is NaN.
Greater(a, b) == ~a.nan /\ ~b.nan /\ a.n > b.n

\* a && b
AndAlso(a, b) == IF a THEN b ELSE a

\* obj.field != null, for an optional property.
Has(obj, field) == field \in DOMAIN obj

validateInclusive(validatableObj) ==
  LET value == validatableObj.value
      v1 == IF Has(validatableObj, "required") /\ validatableObj.required
            THEN AndAlso(TRUE, Len(Trim(ValueToString(value))) # 0)
            ELSE TRUE
      v2 == IF Has(validatableObj, "minLength") /\ value.type = "string"
            THEN AndAlso(v1, Len(value.text) >= validatableObj.minLength)
            ELSE v1
      v3 == IF Has(validatableObj, "maxLength") /\ value.type = "string"
            THEN AndAlso(v2, Len(value.text) <= validatableObj.maxLength)
            ELSE v2
      v4 == IF Has(validatableObj, "min") /\ value.type = "number"
            THEN AndAlso(v3, ~Greater(NumberValue(validatableObj.min), value))
            ELSE v3
      v5 == IF Has(validatableObj, "max") /\ value.type = "number"
            THEN AndAlso(v4, ~Greater(value, NumberValue(validatableObj.max)))
            ELSE v4
  IN  v5

\* validate: isValid after each of the five if statements.
validate(validatableObj) ==
  LET value == validatableObj.value
      v1 == IF Has(validatableObj, "required") /\ validatableObj.required
            THEN AndAlso(TRUE, Len(Trim(ValueToString(value))) # 0)
            ELSE TRUE
      v2 == IF Has(validatableObj, "minLength") /\ value.type = "string"
            THEN AndAlso(v1, Len(value.text) >= validatableObj.minLength)
            ELSE v1
      v3 == IF Has(validatableObj, "maxLength") /\ value.type = "string"
            THEN AndAlso(v2, Len(value.text) <= validatableObj.maxLength)
            ELSE v2
      v4 == IF Has(validatableObj, "min") /\ value.type = "number"
            THEN AndAlso(v3, Greater(value, NumberValue(validatableObj.min)))
            ELSE v3
      v5 == IF Has(validatableObj, "max") /\ value.type = "number"
            THEN AndAlso(v4, Greater(NumberValue(validatableObj.max), value))
            ELSE v4
  IN  v5

-----------------------------------------------------------------------------
(* The store driven through its own interface *)

\* Arguments of addProject: <<title, desc, people>>.
ProjectArgs == {<< <<"a">>, <<"d">>, 1 >>, << <<"b">>, <<"e">>, 3 >>}

\* One of them, where what is added does not matter.
OneProject == {<< <<"a">>, <<"d">>, 1 >>}

\* Payloads of moveProject: the ids Math.random can give, and one it cannot.
ProjectIds == {NumberToString(r) : r \in RandomNumbers} \cup {"none"}

\* No drag in progress.  A drag is the types and the plain text of its
\* DataTransfer and the project of the item being dragged (source), 0 when
\* what is dragged is not an item of a list.
NoDrag == [types |-> <<>>, text |-> "", source |-> 0]

NoOp ==
  [op |-> "init", title |-> <<>>, desc |-> <<>>, people |-> 0,
   id |-> "", status |-> "Active", target |-> ""]

Commit(st) ==
  /\ heap' = st.heap
  /\ projects' = st.projects
  /\ assignedProjects' = st.assignedProjects
  /\ rendered' = st.rendered
  /\ calls' = st.calls
  /\ notified' = st.notified
  /\ stored' = st.stored
  /\ moves' = st.moves
  /\ thrown' = st.thrown

\* The store as its field initializers leave it, with the listeners
\* registered while the components were constructed.
StoreCreated(registered) ==
  /\ heap = <<>>
  /\ projects = <<>>
  /\ listeners = registered
  /\ assignedProjects = [t \in ListTypes |-> <<>>]
  /\ rendered = [t \in ListTypes |-> <<>>]
  /\ calls = <<>>
  /\ notified = 0
  /\ stored = [heap |-> <<>>, projects |-> <<>>]
  /\ moves = <<>>
  /\ thrown = FALSE
  /\ lastOp = NoOp

\* The form with nothing entered.
FormEmpty ==
  /\ titleEl = <<>>
  /\ descInputEl = <<>>
  /\ peopleEl = <<>>
  /\ alerted = FALSE

NoDragging ==
  /\ dataTransfer = NoDrag
  /\ droppable = [t \in ListTypes |-> FALSE]

ValidateIdle ==
  /\ vobj = [value |-> StringValue(<<>>)]
  /\ vresult = <<>>

\* const state = ProjectState.getInstance(), the one call in the script.
InstanceMade ==
  /\ instance = 1
  /\ constructed = 1
  /\ handles = <<1>>

\* No listener has been called yet.
NoTally ==
  /\ invoked = <<>>
  /\ due = <<>>

StoreInit ==
  /\ NoTally
  /\ StoreCreated(<<>>)
  /\ FormEmpty
  /\ NoDragging
  /\ ValidateIdle
  /\ InstanceMade

\* State.addListener
AddListenerCall(kind) ==
  /\ Len(listeners) < MaxListeners
  /\ listeners' = Append(listeners, kind)
  /\ lastOp' = [NoOp EXCEPT !.op = "addListener"]
  /\ Commit(StoreNow)
  /\ alerted' = FALSE
  /\ UNCHANGED <<titleEl, descInputEl, peopleEl, dragVars, validateVars,
                 instanceVars>>

AddProjectCall(title, desc, people, rnd) ==
  /\ Len(heap) < MaxProjects
  /\ Commit(addProject(StoreNow, title, desc, people, rnd))
  /\ lastOp' = [NoOp EXCEPT !.op = "addProject", !.title = title,
                            !.desc = desc, !.people = people,
                            !.id = NumberToString(rnd)]
  /\ UNCHANGED <<listeners, formVars, dragVars, validateVars,
                 instanceVars>>

MoveProjectCall(projectId, newStatus) ==
  /\ Commit(moveProject(StoreNow, projectId, newStatus))
  /\ lastOp' = [NoOp EXCEPT !.op = "moveProject", !.id = projectId,
                            !.status = newStatus]
  /\ UNCHANGED <<listeners, formVars, dragVars, validateVars,
                 instanceVars>>

AddListener(kind) == AddListenerCall(kind) /\ UNCHANGED countVars

AddProject(title, desc, people, rnd) ==
  AddProjectCall(title, desc, people, rnd) /\ UNCHANGED countVars

MoveProject(projectId, newStatus) ==
  MoveProjectCall(projectId, newStatus) /\ UNCHANGED countVars

StoreNext ==
  \/ \E kind \in Callbacks : AddListener(kind)
  \/ \E args \in ProjectArgs, rnd \in RandomNumbers :
        AddProject(args[1], args[2], args[3], rnd)
  \/ \E projectId \in ProjectIds, newStatus \in ProjectStatus :
        MoveProject(projectId, newStatus)

SpecStore == StoreInit /\ [][StoreNext]_vars

\* The store with a tally per listener: the calls made of it, and the
\* mutations made since it was registered (an addProject, or a moveProject
\* after which some record has another status).
MaxTally == 3

Invocations(log, i) == Cardinality({n \in 1..Len(log) : log[n].listener = i})

StatusChanged == \E r \in 1..Len(heap) : heap'[r].status # heap[r].status

Mutated ==
  \/ lastOp'.op = "addProject"
  \/ lastOp'.op = "moveProject" /\ StatusChanged

Tally ==
  /\ invoked' = [i \in 1..Len(listeners') |->
                   (IF i <= Len(invoked) THEN invoked[i] ELSE 0)
                     + Invocations(calls', i)]
  /\ due' = [i \in 1..Len(listeners') |->
               IF i > Len(due) THEN 0
               ELSE due[i] + (IF Mutated THEN 1 ELSE 0)]

TallyBelowBound == \A i \in 1..Len(due) : due[i] < MaxTally

CountNext ==
  \/ \E kind \in {"count"} : AddListenerCall(kind) /\ Tally
  \/ /\ TallyBelowBound
     /\ \E args \in OneProject, rnd \in RandomNumbers :
          AddProjectCall(args[1], args[2], args[3], rnd) /\ Tally
  \/ /\ TallyBelowBound
     /\ \E projectId \in ProjectIds, newStatus \in ProjectStatus :
          MoveProjectCall(projectId, newStatus) /\ Tally

SpecCount == StoreInit /\ [][CountNext]_vars

\* The store with callers' callbacks of every kind.
AnyListenerNext ==
  \/ \E kind \in AnyCallbacks : AddListener(kind)
  \/ \E args \in OneProject, rnd \in RandomNumbers :
        AddProject(args[1], args[2], args[3], rnd)
  \/ \E projectId \in ProjectIds, newStatus \in ProjectStatus :
        MoveProject(projectId, newStatus)

SpecAnyListener == StoreInit /\ [][AnyListenerNext]_vars

-----------------------------------------------------------------------------
(* The singleton *)

getInstanceAlwaysNew(inst, made) ==
  [instance |-> made + 1, constructed |-> made + 1, result |-> made + 1]

\* ProjectState.getInstance: the static field and the number of objects
\* constructed after the call, and the object it returns.  The objects are
\* named 1, 2, ... in the order of their construction.
getInstance(inst, made) ==
  IF inst # 0
  THEN [instance |-> inst, constructed |-> made, result |-> inst]
  ELSE [instance |-> made + 1, constructed |-> made + 1, result |-> made + 1]

\* A call ProjectState.getInstance().
GetInstance ==
  /\ Len(handles) < MaxHandles
  /\ LET got == getInstance(instance, constructed)
     IN  /\ instance' = got.instance
         /\ constructed' = got.constructed
         /\ handles' = Append(handles, got.result)
  /\ lastOp' = [NoOp EXCEPT !.op = "getInstance"]
  /\ alerted' = FALSE
  /\ Commit(StoreNow)
  /\ UNCHANGED <<listeners, titleEl, descInputEl, peopleEl, dragVars,
                 validateVars, countVars>>

\* Before the first call of getInstance.
InstanceInit ==
  /\ NoTally
  /\ StoreCreated(<<>>)
  /\ FormEmpty
  /\ NoDragging
  /\ ValidateIdle
  /\ instance = 0
  /\ constructed = 0
  /\ handles = <<>>

\* Calls of getInstance, and calls of the store through a handle it gave.
InstanceNext ==
  \/ GetInstance
  \/ /\ handles # <<>>
     /\ \E args \in ProjectArgs, rnd \in RandomNumbers :
          AddProject(args[1], args[2], args[3], rnd)
  \/ /\ handles # <<>>
     /\ \E projectId \in ProjectIds, newStatus \in ProjectStatus :
          MoveProject(projectId, newStatus)

SpecInstance == InstanceInit /\ [][InstanceNext]_vars

-----------------------------------------------------------------------------
(* ProjectInput *)

\* The value of a decimal digit.
DigitValue(c) == (CHOOSE i \in 1..10 : DigitChars[i] = c) - 1

RECURSIVE DigitsValue(_)
DigitsValue(s) ==
  IF s = <<>> THEN 0
  ELSE 10 * DigitsValue(SubSeq(s, 1, Len(s) - 1)) + DigitValue(s[Len(s)])

\* The unary plus on a string: white space around the number is skipped,
\* the empty string is 0, decimal digits are their value; any other text
\* of the model's characters is NaN.
StringToNumber(s) ==
  LET t == Trim(s)
  IN  IF t = <<>> THEN NumberValue(0)
      ELSE IF \A i \in 1..Len(t) : \E d \in 1..10 : DigitChars[d] = t[i]
           THEN NumberValue(DigitsValue(t))
           ELSE NaN

gatherUserInputAllMustFail(enteredTitle, enteredDesc, enteredPeople) ==
  LET titleConf == [value |-> StringValue(enteredTitle), required |-> TRUE]
      descriptionConf ==
        [value |-> StringValue(enteredDesc), required |-> TRUE, minLength |-> 5]
      peopleConf ==
        [value |-> StringToNumber(enteredPeople), required |-> TRUE,
         min |-> 1, max |-> 10]
  IN  IF ~validate(titleConf) /\ ~validate(descriptionConf)
           /\ ~validate(peopleConf)
      THEN [alert |-> TRUE, tuple |-> <<>>]
      ELSE [alert |-> FALSE,
            tuple |-> <<enteredTitle, enteredDesc,
                        StringToNumber(enteredPeople).n>>]

\* ProjectInput.gatherUserInput: whether it alerts, and the tuple it
\* returns (none after an alert).
gatherUserInput(enteredTitle, enteredDesc, enteredPeople) ==
  LET titleConf == [value |-> StringValue(enteredTitle), required |-> TRUE]
      descriptionConf ==
        [value |-> StringValue(enteredDesc), required |-> TRUE, minLength |-> 5]
      peopleConf ==
        [value |-> StringToNumber(enteredPeople), required |-> TRUE,
         min |-> 1, max |-> 10]
  IN  IF ~validate(titleConf) \/ ~validate(descriptionConf)
           \/ ~validate(peopleConf)
      THEN [alert |-> TRUE, tuple |-> <<>>]
      ELSE [alert |-> FALSE,
            tuple |-> <<enteredTitle, enteredDesc,
                        StringToNumber(enteredPeople).n>>]

\* What the user can have typed into the three fields:
\* <<title, description, people>>.
FormInputs ==
  {<< <<"a">>, <<" ", "a", "b", "c", " ">>, <<" ", "9">> >>,
   << <<" ">>, <<"a", "b", "c", "d", "e">>, <<"5">> >>,
   << <<"a">>, <<"a", "b", "c", "d">>, <<"5">> >>,
   << <<"a">>, <<" ", " ", " ", " ", " ">>, <<"5">> >>,
   << <<"a">>, <<"a", "b", "c", "d", "e">>, <<"1">> >>,
   << <<"a">>, <<"a", "b", "c", "d", "e">>, <<"1", "0">> >>,
   << <<"a">>, <<"a", "b", "c", "d", "e">>, <<"x">> >>,
   << <<"a">>, <<"a", "b", "c", "d", "e">>, <<>> >>}

\* The user types into the fields of the form.
Fill(input) ==
  /\ titleEl' = input[1]
  /\ descInputEl' = input[2]
  /\ peopleEl' = input[3]
  /\ alerted' = FALSE
  /\ lastOp' = [NoOp EXCEPT !.op = "fill"]
  /\ Commit(StoreNow)
  /\ UNCHANGED <<listeners, dragVars, validateVars,
                 instanceVars, countVars>>

\* ProjectInput.submitHandler, with ProjectInput.clearInputs.
Submit(rnd) ==
  LET userIn == gatherUserInput(titleEl, descInputEl, peopleEl)
  IN  /\ userIn.alert \/ Len(heap) < MaxProjects
      /\ lastOp' = [NoOp EXCEPT !.op = "submit"]
      /\ alerted' = userIn.alert
      /\ IF userIn.tuple # <<>>
         THEN LET added == addProject(StoreNow, userIn.tuple[1],
                                      userIn.tuple[2], userIn.tuple[3], rnd)
              IN  /\ Commit(added)
                  /\ IF added.thrown
                     THEN UNCHANGED <<titleEl, descInputEl, peopleEl>>
                     ELSE /\ titleEl' = <<>>
                          /\ descInputEl' = <<>>
                          /\ peopleEl' = <<>>
         ELSE /\ Commit(StoreNow)
              /\ UNCHANGED <<titleEl, descInputEl, peopleEl>>
      /\ UNCHANGED <<listeners, dragVars, validateVars,
                 instanceVars, countVars>>

-----------------------------------------------------------------------------
(* ProjectItem and ProjectList *)

PlainText == "text/plain"

\* DataTransfer.getData("text/plain")
GetData(dt) == dt.text

\* ProjectItem.dragStartHandler of the k-th item of a list.
DragStart(projectType, k) ==
  /\ dataTransfer = NoDrag
  /\ k \in 1..Len(rendered[projectType])
  /\ dataTransfer' =
       [types |-> <<PlainText>>, text |-> heap[rendered[projectType][k]].id,
        source |-> rendered[projectType][k]]
  /\ lastOp' = [NoOp EXCEPT !.op = "dragStart"]
  /\ alerted' = FALSE
  /\ Commit(StoreNow)
  /\ UNCHANGED <<listeners, titleEl, descInputEl, peopleEl, droppable,
                 validateVars, instanceVars, countVars>>

\* Drags that start outside the lists: a text selection, and a link whose
\* first type is not plain text.
ForeignDrags ==
  {[types |-> <<PlainText>>, text |-> "none", source |-> 0],
   [types |-> <<"text/uri-list", PlainText>>, text |-> "0", source |-> 0]}

DragStartForeign(dt) ==
  /\ dataTransfer = NoDrag
  /\ dataTransfer' = dt
  /\ lastOp' = [NoOp EXCEPT !.op = "dragStartForeign"]
  /\ alerted' = FALSE
  /\ Commit(StoreNow)
  /\ UNCHANGED <<listeners, titleEl, descInputEl, peopleEl, droppable,
                 validateVars, instanceVars, countVars>>

DragOverAcceptsAnyType(dt) == dt.types # <<>>

\* The test of ProjectList.dragOverHandler, under which it calls
\* preventDefault and so permits a drop.
DragOverAccepts(dt) == dt.types # <<>> /\ dt.types[1] = PlainText

\* ProjectList.dragOverHandler
DragOver(projectType) ==
  /\ dataTransfer # NoDrag
  /\ droppable' = IF DragOverAccepts(dataTransfer)
                  THEN [droppable EXCEPT ![projectType] = TRUE]
                  ELSE droppable
  /\ lastOp' = [NoOp EXCEPT !.op = "dragOver"]
  /\ alerted' = FALSE
  /\ Commit(StoreNow)
  /\ UNCHANGED <<listeners, titleEl, descInputEl, peopleEl, dataTransfer,
                 validateVars, instanceVars, countVars>>

\* ProjectList.dragLeaveHandler
DragLeave(projectType) ==
  /\ dataTransfer # NoDrag
  /\ droppable' = [droppable EXCEPT ![projectType] = FALSE]
  /\ lastOp' = [NoOp EXCEPT !.op = "dragLeave"]
  /\ alerted' = FALSE
  /\ Commit(StoreNow)
  /\ UNCHANGED <<listeners, titleEl, descInputEl, peopleEl, dataTransfer,
                 validateVars, instanceVars, countVars>>

\* ProjectList.dropHandler.  The drop event is dispatched to a list only
\* when its dragOverHandler has called preventDefault for this drag, which
\* has set the class droppable; the drag is over with the drop.
Drop(projectType) ==
  /\ dataTransfer # NoDrag
  /\ DragOverAccepts(dataTransfer)
  /\ droppable[projectType]
  /\ Commit(moveProject(StoreNow, GetData(dataTransfer),
                        ListStatus(projectType)))
  /\ lastOp' = [NoOp EXCEPT !.op = "drop", !.id = GetData(dataTransfer),
                            !.status = ListStatus(projectType),
                            !.target = projectType]
  /\ dataTransfer' = NoDrag
  /\ alerted' = FALSE
  /\ UNCHANGED <<listeners, titleEl, descInputEl, peopleEl, droppable,
                 validateVars, instanceVars, countVars>>

\* ProjectItem.dragEndHandler, for a drag that ends without a drop.
DragEnd ==
  /\ dataTransfer # NoDrag
  /\ dataTransfer' = NoDrag
  /\ lastOp' = [NoOp EXCEPT !.op = "dragEnd"]
  /\ alerted' = FALSE
  /\ Commit(StoreNow)
  /\ UNCHANGED <<listeners, titleEl, descInputEl, peopleEl, droppable,
                 validateVars, instanceVars, countVars>>

-----------------------------------------------------------------------------
(* The program *)

\* The state once the script has run: the store, the form, the active list
\* and the finished list, constructed in this order, each list registering
\* its listener as it is constructed.
Init ==
  /\ NoTally
  /\ StoreCreated(<<"active", "finished">>)
  /\ FormEmpty
  /\ NoDragging
  /\ ValidateIdle
  /\ InstanceMade

Next ==
  \/ \E input \in FormInputs : Fill(input)
  \/ \E rnd \in RandomNumbers : Submit(rnd)
  \/ \E projectType \in ListTypes, k \in 1..MaxProjects :
        DragStart(projectType, k)
  \/ \E dt \in ForeignDrags : DragStartForeign(dt)
  \/ \E projectType \in ListTypes : DragOver(projectType)
  \/ \E projectType \in ListTypes : DragLeave(projectType)
  \/ \E projectType \in ListTypes : Drop(projectType)
  \/ DragEnd

Spec == Init /\ [][Next]_vars

-----------------------------------------------------------------------------
(* validate on its own *)

MaxNumber == 4

Texts ==
  {<<>>, <<" ">>, <<"\t", " ">>, <<"a">>, <<" ", "a">>, <<"a", "b", "c">>}

Values ==
  {StringValue(s) : s \in Texts}
    \cup {NumberValue(n) : n \in -1..MaxNumber} \cup {NaN}

\* The objects of S, and each of them with the optional property set to
\* each of the values.
WithOptional(S, field, values) ==
  S \cup {obj @@ (field :> x) : obj \in S, x \in values}

Validatables ==
  WithOptional(
    WithOptional(
      WithOptional(
        WithOptional(
          WithOptional({[value |-> v] : v \in Values}, "required", BOOLEAN),
          "minLength", {2}),
        "maxLength", {2}),
      "min", {1}),
    "max", {3})

ValidateInit ==
  /\ NoTally
  /\ StoreCreated(<<>>)
  /\ FormEmpty
  /\ NoDragging
  /\ vobj \in Validatables
  /\ vresult = <<>>
  /\ InstanceMade

\* A call validate(vobj).
Validate ==
  /\ vresult = <<>>
  /\ vresult' = <<validate(vobj)>>
  /\ UNCHANGED <<storeVars, listeners, lastOp, formVars, dragVars, vobj,
                 instanceVars, countVars>>

ValidateNext == Validate

SpecValidate == ValidateInit /\ [][ValidateNext]_vars

-----------------------------------------------------------------------------
(* Properties of the store *)

\* Some stored record has the id and satisfies the test on its status.
SomeRecord(id, Test(_)) ==
  \E k \in 1..Len(projects) :
    heap[projects[k]].id = id /\ Test(heap[projects[k]].status)

\* C1: addProject(title, desc, people) appends exactly one record, at the
\* end of the sequence, Active and with the given title, description and
\* people count; the length grows by one and every record stored before is
\* unchanged and keeps its position.
C1_AddAppendsOne ==
  [][lastOp'.op = "addProject" =>
       /\ Len(projects') = Len(projects) + 1
       /\ \A k \in 1..Len(projects) :
            /\ projects'[k] = projects[k]
            /\ heap'[projects'[k]] = heap[projects[k]]
       /\ \A k \in 1..Len(projects) : projects'[Len(projects')] # projects[k]
       /\ LET new == heap'[projects'[Len(projects')]]
          IN  /\ new.status = "Active"
              /\ new.title = lastOp'.title
              /\ new.description = lastOp'.desc
              /\ new.people = lastOp'.people]_vars

C1_Witness ==
  /\ lastOp.op = "addProject"
  /\ Len(projects) = 2
  /\ Len(listeners) >= 1
  /\ heap[projects[1]].status = "Finished"

\* C2: no two records of the store have the same id.
C2_IdsUnique ==
  \A i, j \in 1..Len(projects) :
    i # j => heap[projects[i]].id # heap[projects[j]].id

\* C3: one run of updateListeners calls every registered listener once per
\* registration, in registration order, each with a sequence that has the
\* elements and the order of the store's sequence and is another array
\* object than the store's.
C3_NotifyInOrderWithCopy ==
  notified >= 1 =>
    /\ notified = 1
    /\ Len(calls) = Len(listeners)
    /\ \A i \in 1..Len(calls) :
         /\ calls[i].listener = i
         /\ calls[i].items = projects
         /\ calls[i].ref # ProjectsRef

C3_Witness ==
  /\ notified = 1
  /\ Len(listeners) = 2
  /\ listeners = <<"clear", "clear">>
  /\ Len(projects) = 2

\* C4: moveProject(id, s), id being the id of a stored record whose status
\* is already s, leaves the sequence and the records unchanged and calls no
\* listener.
C4_MoveSameStatusNoOp ==
  [][(/\ lastOp'.op = "moveProject"
      /\ SomeRecord(lastOp'.id, LAMBDA status : status = lastOp'.status))
       => /\ projects' = projects
          /\ heap' = heap
          /\ calls' = <<>>]_vars

\* C5: moveProject(id, s) with an id no stored record has changes nothing
\* in the store and calls no listener, for either status.
C5_MoveUnknownIdNoOp ==
  [][(/\ lastOp'.op = "moveProject"
      /\ ~SomeRecord(lastOp'.id, LAMBDA status : TRUE))
       => /\ projects' = projects
          /\ heap' = heap
          /\ assignedProjects' = assignedProjects
          /\ notified' = 0
          /\ calls' = <<>>]_vars

C5_Witness ==
  /\ lastOp.op = "moveProject"
  /\ ~SomeRecord(lastOp.id, LAMBDA status : TRUE)
  /\ lastOp.status = "Finished"
  /\ Len(projects) >= 1
  /\ Len(listeners) >= 1

\* C6: moveProject(id, s), a stored record having the id and a status other
\* than s, sets the status of the first record with the id to s and then
\* calls every registered listener exactly once, with a snapshot that shows
\* the new status.
C6_MoveChangesAndNotifies ==
  [][(/\ lastOp'.op = "moveProject"
      /\ SomeRecord(lastOp'.id, LAMBDA status : status # lastOp'.status))
       => LET k == FindIndex(StoreNow, lastOp'.id)
          IN  /\ projects' = projects
              /\ heap'[projects[k]].status = lastOp'.status
              /\ notified' = 1
              /\ Len(calls') = Len(listeners)
              /\ \A i \in 1..Len(calls') :
                   /\ calls'[i].listener = i
                   /\ calls'[i].seen[k].status = lastOp'.status]_vars

\* C7: nothing a listener does with the snapshot it is given, to the
\* sequence or to a record reached through it, changes the store's sequence
\* or the fields of the records the store holds: after the listeners have
\* run the store is as updateListeners found it.
C7_ListenersCannotChangeStore ==
  notified >= 1 =>
    /\ projects = stored.projects
    /\ heap = stored.heap

\* C12: the store's sequence only grows at its end: no record is removed
\* or moved, every record keeps its id, title, description and people
\* count, and a status changes in a moveProject only.
C12_AppendOnlyStatusOnly ==
  [][/\ Len(projects') >= Len(projects)
     /\ \A k \in 1..Len(projects) : projects'[k] = projects[k]
     /\ \A r \in 1..Len(heap) :
          /\ heap'[r].id = heap[r].id
          /\ heap'[r].title = heap[r].title
          /\ heap'[r].description = heap[r].description
          /\ heap'[r].people = heap[r].people
          /\ heap'[r].status # heap[r].status => lastOp'.op = "moveProject"]_vars

C12_Witness ==
  /\ lastOp.op = "moveProject"
  /\ notified = 1
  /\ Len(projects) = 2
  /\ heap[projects[1]].status = "Finished"
  /\ heap[projects[2]].status = "Active"
  /\ "clear" \in {listeners[i] : i \in 1..Len(listeners)}

\* C14: getInstance constructs the store in its first call and returns
\* that object in every call: at most one ProjectState is ever constructed
\* and every handle is the same object, the one of the static field.
C14_OneInstance ==
  /\ constructed <= 1
  /\ handles # <<>> => constructed = 1
  /\ \A i \in 1..Len(handles) : handles[i] = instance /\ handles[i] = handles[1]

C14_Witness ==
  /\ Len(handles) = 2
  /\ lastOp.op = "getInstance"
  /\ Len(projects) >= 1

\* C18: a listener has been called once for every addProject and for every
\* moveProject that changed a status since it was registered, and not
\* otherwise; addListener calls no listener, the new one included, and
\* leaves the store's sequence and records as they are.
C18_CalledOncePerMutation ==
  [][/\ \A i \in 1..Len(listeners') : invoked'[i] = due'[i]
     /\ lastOp'.op = "addListener" =>
          /\ calls' = <<>>
          /\ invoked'[Len(listeners')] = 0
          /\ projects' = projects
          /\ heap' = heap]_vars

C18_Witness ==
  /\ Len(listeners) = 2
  /\ invoked = <<2, 1>>
  /\ due = <<2, 1>>
  /\ lastOp.op = "moveProject"
  /\ notified = 1

\* C17: when a listener fails during a notification, the listeners
\* registered after it are not called for that mutation, and the mutation
\* stays in the store: the appended record, or the changed status.
C17_FailingListenerStopsTheRest ==
  (notified = 1 /\ \E i \in 1..Len(listeners) : listeners[i] = "throw") =>
    /\ thrown
    /\ \E f \in 1..Len(listeners) :
         /\ listeners[f] = "throw"
         /\ \A j \in 1..(f - 1) : listeners[j] # "throw"
         /\ Len(calls) = f
         /\ \A i \in 1..f : calls[i].listener = i
    /\ lastOp.op = "addProject" =>
         /\ projects # <<>>
         /\ heap[projects[Len(projects)]].id = lastOp.id
         /\ heap[projects[Len(projects)]].description = lastOp.desc
         /\ heap[projects[Len(projects)]].status = "Active"
    /\ lastOp.op = "moveProject" =>
         \E k \in 1..Len(projects) :
           /\ heap[projects[k]].id = lastOp.id
           /\ \A j \in 1..(k - 1) : heap[projects[j]].id # lastOp.id
           /\ heap[projects[k]].status = lastOp.status

C17_Witness ==
  /\ notified = 1
  /\ thrown
  /\ listeners = <<"throw", "count">>
  /\ lastOp.op = "moveProject"
  /\ Len(calls) = 1

-----------------------------------------------------------------------------
(* Properties of the program *)

\* The place of a reference in a sequence of references, 0 if it has none.
PlaceIn(seq, ref) ==
  IF \E k \in 1..Len(seq) : seq[k] = ref
  THEN CHOOSE k \in 1..Len(seq) : seq[k] = ref
  ELSE 0

\* The sequence holds exactly the stored records of the status, each once,
\* in the order of the store.
HoldsExactly(seq, status) ==
  /\ \A k \in 1..Len(projects) :
       (PlaceIn(seq, projects[k]) # 0) <=> (heap[projects[k]].status = status)
  /\ \A i \in 1..Len(seq) : PlaceIn(projects, seq[i]) # 0
  /\ \A i, j \in 1..Len(seq) :
       i < j => PlaceIn(projects, seq[i]) < PlaceIn(projects, seq[j])

\* C8: between any two events each list container's assignedProjects is
\* exactly the stored records of its category, in store order, so that
\* every record is in exactly one of the two, a moved record changing
\* sides within the call that moves it.
C8_ListsMirrorStore ==
  /\ \A t \in ListTypes : HoldsExactly(assignedProjects[t], ListStatus(t))
  /\ \A k \in 1..Len(projects) :
       (PlaceIn(assignedProjects["active"], projects[k]) # 0)
         # (PlaceIn(assignedProjects["finished"], projects[k]) # 0)

C8_Witness ==
  /\ lastOp.op = "drop"
  /\ notified = 1
  /\ lastOp.status = "Finished"
  /\ Len(assignedProjects["active"]) = 1
  /\ Len(assignedProjects["finished"]) = 1

\* C9: a submit calls addProject and clears the fields only if the three
\* fields pass validation; if one fails the user is alerted, addProject is
\* not called, the store's sequence is unchanged and no listener is called.
C9_SubmitOnlyWhenValid ==
  [][lastOp'.op = "submit" =>
       LET pass ==
             /\ validate([value |-> StringValue(titleEl), required |-> TRUE])
             /\ validate([value |-> StringValue(descInputEl),
                          required |-> TRUE, minLength |-> 5])
             /\ validate([value |-> StringToNumber(peopleEl),
                          required |-> TRUE, min |-> 1, max |-> 10])
       IN  /\ pass =>
                /\ ~alerted'
                /\ Len(projects') = Len(projects) + 1
                /\ heap'[projects'[Len(projects')]].title = titleEl
                /\ heap'[projects'[Len(projects')]].description = descInputEl
                /\ heap'[projects'[Len(projects')]].people
                     = StringToNumber(peopleEl).n
                /\ <<titleEl', descInputEl', peopleEl'>> = << <<>>, <<>>, <<>> >>
           /\ ~pass =>
                /\ alerted'
                /\ projects' = projects
                /\ heap' = heap
                /\ notified' = 0
                /\ calls' = <<>>
                /\ <<titleEl', descInputEl', peopleEl'>>
                     = <<titleEl, descInputEl, peopleEl>>]_vars

C9_Witness ==
  /\ lastOp.op = "submit"
  /\ alerted
  /\ Len(projects) >= 1
  /\ titleEl # <<>>

\* C11: the status of a record changes only in a drop on a list whose
\* payload is the id of a stored record of another status than the list's
\* category, and becomes that category; a form submit, a drag start, end,
\* over or leave, a drop of an unknown id and a drop of an item on the list
\* it is in leave every status as it was.
C11_StatusChangesOnlyByDrop ==
  [][\A r \in 1..Len(heap) :
       /\ heap'[r].status # heap[r].status =>
            /\ lastOp'.op = "drop"
            /\ heap[r].id = lastOp'.id
            /\ heap[r].status # lastOp'.status
            /\ heap'[r].status = lastOp'.status
       /\ (\/ lastOp'.op # "drop"
           \/ ~SomeRecord(lastOp'.id, LAMBDA status : TRUE)
           \/ /\ dataTransfer.source # 0
              /\ heap[dataTransfer.source].status = lastOp'.status)
            => heap'[r].status = heap[r].status]_vars

\* C13: a list acts on a drop only if the first type of what is dragged is
\* plain text: while anything else is dragged no moveProject call is made,
\* and a drop of plain text makes exactly one, with the plain text as the
\* id and the list's own category as the status.
C13_DropOnlyPlainText ==
  [][/\ (dataTransfer # NoDrag /\ dataTransfer.types[1] # PlainText)
          => moves' = <<>>
     /\ lastOp'.op = "drop" =>
          /\ dataTransfer.types[1] = PlainText
          /\ lastOp'.target \in ListTypes
          /\ moves' = <<[id |-> dataTransfer.text,
                         status |-> IF lastOp'.target = "active"
                                    THEN "Active" ELSE "Finished"]>>]_vars

C13_Witness ==
  /\ lastOp.op = "drop"
  /\ lastOp.target = "finished"
  /\ moves = <<[id |-> "none", status |-> "Finished"]>>
  /\ Len(projects) >= 1

\* The text has a character that trimming leaves.
NonBlankText(text) == \E i \in 1..Len(text) : text[i] \notin WhiteSpace

\* C15: every record stored through the form has a title that is not
\* blank, a description that is not blank and has at least 5 characters,
\* and a people count strictly between 1 and 10; a submit with a people
\* count of exactly 1 or exactly 10 is rejected and stores no record.
C15_StoredRecordsAreValid ==
  [][/\ \A k \in 1..Len(projects') :
          LET prj == heap'[projects'[k]]
          IN  /\ NonBlankText(prj.title)
              /\ NonBlankText(prj.description)
              /\ Len(prj.description) >= 5
              /\ prj.people > 1
              /\ prj.people < 10
     /\ (lastOp'.op = "submit" /\ peopleEl \in {<<"1">>, <<"1", "0">>})
          => /\ alerted'
             /\ projects' = projects
             /\ heap' = heap]_vars

C15_Witness ==
  /\ lastOp.op = "submit"
  /\ alerted
  /\ peopleEl = <<"1", "0">>
  /\ Len(projects) = 2
  /\ heap[projects[1]].status = "Finished"

\* C16: the items in a list container's list are exactly the records of
\* its assignedProjects, one item for each record and in the same order,
\* with no item of an earlier rendering left and no record shown twice.
C16_RenderedIsAssigned ==
  \A t \in ListTypes :
    /\ Len(rendered[t]) = Len(assignedProjects[t])
    /\ \A i \in 1..Len(rendered[t]) : rendered[t][i] = assignedProjects[t][i]
    /\ \A i, j \in 1..Len(rendered[t]) :
         i # j => rendered[t][i] # rendered[t][j]

C16_Witness ==
  /\ notified = 1
  /\ lastOp.op = "drop"
  /\ Len(rendered["finished"]) = 2
  /\ rendered["active"] = <<>>

-----------------------------------------------------------------------------
(* Properties of validate *)

\* The text of the value has a character that trimming leaves.
NonBlank(value) ==
  \/ value.type = "number"
  \/ \E i \in 1..Len(value.text) : value.text[i] \notin WhiteSpace

\* The constraint is absent, or does not apply to the value, or holds.
RequiredHolds(obj) ==
  ("required" \in DOMAIN obj /\ obj.required) => NonBlank(obj.value)

MinLengthHolds(obj) ==
  ("minLength" \in DOMAIN obj /\ obj.value.type = "string")
    => Len(obj.value.text) >= obj.minLength

MaxLengthHolds(obj) ==
  ("maxLength" \in DOMAIN obj /\ obj.value.type = "string")
    => Len(obj.value.text) <= obj.maxLength

MinHolds(obj) ==
  ("min" \in DOMAIN obj /\ obj.value.type = "number")
    => (~obj.value.nan /\ obj.value.n > obj.min)

MaxHolds(obj) ==
  ("max" \in DOMAIN obj /\ obj.value.type = "number")
    => (~obj.value.nan /\ obj.value.n < obj.max)

\* C10: validate returns a boolean, the conjunction of the constraints that
\* are present: required is non-blank text after trimming, minLength and
\* maxLength bind strings only and are inclusive, min and max bind numbers
\* only and are strict, and an absent constraint never fails.
C10_ValidateIsConjunction ==
  vresult # <<>> =>
    /\ vresult[1] \in BOOLEAN
    /\ vresult[1] = (/\ RequiredHolds(vobj)
                     /\ MinLengthHolds(vobj)
                     /\ MaxLengthHolds(vobj)
                     /\ MinHolds(vobj)
                     /\ MaxHolds(vobj))

C10_Witness ==
  /\ vresult = <<FALSE>>
  /\ vobj.value = NumberValue(1)
  /\ DOMAIN vobj = {"value", "min"}
  /\ vobj.min = 1

====
